---- MODULE Spec2Model ----
(***************************************************************************)
(* SignBot: the text-to-animation synthesizer and the keyframe playback    *)
(* engine of src/src/services/avatarService.ts, the gesture recognition    *)
(* service of src/src/services/gestureRecognition.ts, and the recording    *)
(* controls and sampling loop of src/src/components/VideoInput.tsx.        *)
(*                                                                         *)
(* The specifications of the module:                                       *)
(*   SynthSpec       one call of textToAnimation on every bounded text;    *)
(*   InterpSpec      textToAnimation, then one call of interpolatePose;    *)
(*   Spec            the player: initialize, animateText, stopAnimation,   *)
(*                   the display-refresh scheduler and the clock (LiveSpec *)
(*                   adds the scheduler's fairness);                       *)
(*   ClassifierSpec  the service: initialize, doInitialize, processFrame;  *)
(*   RecorderSpec    VideoInput: start and stop of a recording, the camera,*)
(*                   the sampling loop and the renders.                    *)
(***************************************************************************)
EXTENDS Integers, Sequences, FiniteSets, TLC

VARIABLES
    text,               \* textToAnimation's argument
    animation,          \* textToAnimation's result, NoAnimation before the call
    canvasReady,        \* this.canvas and this.ctx are set
    currentAnimation,   \* this.currentAnimation
    animationStartTime, \* this.animationStartTime, in clock units
    isAnimating,        \* this.isAnimating
    now,                \* Date.now(), in clock units
    plays,              \* one entry per playAnimation call: its promise
    rafQueue,           \* requestAnimationFrame callbacks waiting for the next frame
    lastOp,             \* history: the operation that led to the state
    lastRenders,        \* history: the renderFrame calls of that operation
    stoppedSince,       \* history: stopAnimation was called and no play since
    stoppedUpTo,        \* history: the plays made before the last stopAnimation
    elapsedArg,         \* interpolatePose's argument, in milliseconds
    pose,               \* interpolatePose's result, NoPose before the call
    initialized,        \* GestureRecognitionService.initialized
    model,              \* GestureRecognitionService.model is set
    initializationPromise, \* GestureRecognitionService.initializationPromise
    callers,            \* the initialize() calls: what each caller's promise did
    setups,             \* doInitialize calls so far
    failures,           \* history: doInitialize calls that rejected
    lastClassify,       \* history: the last processFrame call and its outcome
    isRecording,        \* the store's isRecording
    stream,             \* VideoInput's stream is set
    starting,           \* a startRecording call awaits startCamera
    isVideoReady,       \* VideoInput's isVideoReady
    gestureQueue,       \* VideoInput's gestureQueue as of the last render
    queueUpdates,       \* setGestureQueue calls not rendered yet, oldest first
    loopArmed,          \* the processFrame callbacks registered for the next
                        \* frame, counted
    mounted,            \* VideoInput is mounted
    admitted,           \* history: labels that passed the gate this session,
                        \* submitted to the mounted VideoInput's queue
    sessions,           \* history: startRecording calls so far
    messageCount,       \* the store's messages, counted
    lastRec,            \* history: VideoInput's last operation
    currentMode,        \* the store's currentMode
    messages,           \* the store's messages
    isProcessing,       \* the store's isProcessing
    inflight,           \* generateResponse calls not settled yet: their inputs
    currentResponse,    \* App's currentResponse
    isAvatarAnimating,  \* App's isAvatarAnimating
    timers,             \* App's setTimeout callbacks not fired yet: due times, ms
    generations,        \* history: generateResponse calls so far
    lastChat            \* history: App's last operation

synthVars == <<text, animation>>
playerVars == <<canvasReady, currentAnimation, animationStartTime, isAnimating,
                now, plays, rafQueue, lastOp, lastRenders, stoppedSince,
                stoppedUpTo>>
interpVars == <<elapsedArg, pose>>
classifierVars == <<initialized, model, initializationPromise, callers,
                    setups, failures, lastClassify>>
recorderVars == <<isRecording, stream, starting, isVideoReady, gestureQueue,
                  queueUpdates, loopArmed, mounted, admitted, sessions,
                  messageCount,
                  lastRec>>
chatVars == <<currentMode, messages, isProcessing, inflight, currentResponse,
              isAvatarAnimating, timers, generations, lastChat>>
vars == <<text, animation, canvasReady, currentAnimation, animationStartTime,
          isAnimating, now, plays, rafQueue, lastOp, lastRenders, stoppedSince,
          stoppedUpTo, elapsedArg, pose, initialized, model, initializationPromise,
          callers, setups, failures, lastClassify, isRecording, stream,
          starting,
          isVideoReady, gestureQueue, queueUpdates, loopArmed, mounted, admitted,
          sessions, messageCount, lastRec, currentMode, messages,
          isProcessing, inflight, currentResponse, isAvatarAnimating, timers,
          generations, lastChat>>

(***************************************************************************)
(* Bounds.                                                                 *)
(***************************************************************************)
\* Longest input text, in tokens (a token is a space or a maximal run of
\* non-space characters).
MaxTokens == 3
\* Math.random() returns k / RandRes for k in 0 .. RandRes - 1.
RandRes == 4
\* playAnimation calls in one run.
MaxPlays == 2
\* The clock runs from 0 to MaxNow units of ClockUnitMs milliseconds.
MaxNow == 8
ClockUnitMs == 250
\* Callers of GestureRecognitionService.initialize(), and doInitialize runs.
MaxCallers == 2
MaxSetups == 2
\* simulateGestureRecognition's Math.random() returns k / LabelRes.
LabelRes == 2
\* Samples admitted in one recording session, setGestureQueue calls waiting
\* for a render, and recording sessions in one run.
MaxAdmitted == 4
MaxPending == 1
MaxSessions == 2
\* Response generations started in one run.
MaxGenerations == 2

Callers == 1..MaxCallers

(***************************************************************************)
(* Input texts.  A text is the sequence of its tokens: Space, or a chunk,  *)
(* a maximal run of non-space characters (so no two chunks are adjacent).  *)
(***************************************************************************)
Space == " "

Chunks == {"hello", "help", "thank", "you", "good",
           "great", "wonderful", "happy",
           "what", "how", "why", "when", "where", "?",
           "Hello", "xyz", "constructor"}

Tokens == Chunks \cup {Space}

Texts ==
    UNION {{t \in [1..n -> Tokens] :
               \A i \in 1..(n - 1) : t[i] = Space \/ t[i + 1] = Space}
           : n \in 0..MaxTokens}

NoAnimation == [none |-> TRUE]

\* A property the object literal lacks: gesture.leftArm when the spread
\* copied no leftArm.
Undefined == [undefined |-> TRUE]

\* interpolatePose has not been called.
NoPose == [nopose |-> TRUE]

InterpInit ==
    /\ elapsedArg = 0
    /\ pose = NoPose

\* gestureRecognition.ts:5-7, the service's fields after construction.
ClassifierInit ==
    /\ initialized = FALSE
    /\ model = FALSE
    /\ initializationPromise = "null"
    /\ callers = [c \in Callers |-> "idle"]
    /\ setups = 0
    /\ failures = 0
    /\ lastClassify = [called |-> FALSE]

\* useAppStore.ts:15-18 and App.tsx:14-15, the state at mount.
ChatInit ==
    /\ currentMode = "text"
    /\ messages = <<>>
    /\ isProcessing = FALSE
    /\ inflight = <<>>
    /\ currentResponse = <<>>
    /\ isAvatarAnimating = FALSE
    /\ timers = <<>>
    /\ generations = 0
    /\ lastChat = [op |-> "mount"]

\* VideoInput.tsx:9-12 and useAppStore.ts, the state at mount.
RecorderInit ==
    /\ isRecording = FALSE
    /\ stream = FALSE
    /\ starting = FALSE
    /\ isVideoReady = FALSE
    /\ gestureQueue = <<>>
    /\ queueUpdates = <<>>
    /\ loopArmed = 0
    /\ mounted = TRUE
    /\ admitted = <<>>
    /\ sessions = 0
    /\ messageCount = 0
    /\ lastRec = [op |-> "mount"]

(***************************************************************************)
(* String.prototype.toLowerCase, per token, and String.prototype.split(' ')*)
(***************************************************************************)
toLowerCaseIdentity(tok) == tok

toLowerCase(tok) ==
    CASE tok = "Hello" -> "hello"
      [] tok = "I'm" -> "i'm"
      [] tok = "I" -> "i"
      [] tok = "AI" -> "ai"
      [] tok = "Please" -> "please"
      [] tok = "Sorry," -> "sorry,"
      [] OTHER -> tok

RECURSIVE SplitFrom(_, _, _, _)
SplitFrom(t, i, cur, acc) ==
    IF i > Len(t) THEN Append(acc, cur)
    ELSE IF t[i] = Space THEN SplitFrom(t, i + 1, "", Append(acc, cur))
    ELSE SplitFrom(t, i + 1, toLowerCase(t[i]), acc)

\* text.toLowerCase().split(' '): a separator at either end, or two in a
\* row, yields an empty word; the empty text yields the one word "".
split(t) == SplitFrom(t, 1, "", <<>>)

(***************************************************************************)
(* Math.random(): the engine's seeded generator.  The seed is unknown to   *)
(* the program, so a call of textToAnimation runs under an arbitrary seed; *)
(* the n-th draw of the call is k / RandRes with k = MathRandom(seed, n).  *)
(***************************************************************************)
Seeds == [a : 0..(RandRes - 1), b : 0..(RandRes - 1)]

MathRandom(seed, n) == (seed.a + seed.b * n) % RandRes

\* Math.random() * span - offset for the draw k / RandRes
Scaled(k, span, offset) == ((span * k) \div RandRes) - offset

(***************************************************************************)
(* getGestureForWord                                                       *)
(***************************************************************************)
WordDurationMs == 500
RestPaddingMs == 500

TabledWords == {"hello", "help", "thank", "you", "good"}

gestures(word) ==
    CASE word = "hello" ->
            [leftArm |-> [x |-> -30, y |-> -20, rotation |-> 45],
             rightArm |-> [x |-> 30, y |-> -20, rotation |-> -45],
             head |-> [rotation |-> 0]]
      [] word = "help" ->
            [leftArm |-> [x |-> 0, y |-> -30, rotation |-> 0],
             rightArm |-> [x |-> 0, y |-> -30, rotation |-> 0],
             head |-> [rotation |-> 5]]
      [] word = "thank" ->
            [leftArm |-> [x |-> -20, y |-> -10, rotation |-> 30],
             rightArm |-> [x |-> 20, y |-> -10, rotation |-> -30],
             head |-> [rotation |-> -5]]
      [] word = "you" ->
            [leftArm |-> [x |-> 0, y |-> 0, rotation |-> 0],
             rightArm |-> [x |-> 15, y |-> -15, rotation |-> -20],
             head |-> [rotation |-> 0]]
      [] word = "good" ->
            [leftArm |-> [x |-> -25, y |-> -25, rotation |-> 60],
             rightArm |-> [x |-> 25, y |-> -25, rotation |-> -60],
             head |-> [rotation |-> 0]]

\* gestures[word] also finds what the object literal inherits from
\* Object.prototype: a function or an object, truthy, with no own enumerable
\* property, so that spreading it into the keyframe copies nothing.
ObjectPrototypeKeys == {"constructor", "__proto__"}

\* The seven draws of the fallback literal, in evaluation order; n is the
\* number of draws made before it.
RandomGesture(seed, n) ==
    [leftArm |-> [x |-> Scaled(MathRandom(seed, n + 1), 40, 20),
                  y |-> Scaled(MathRandom(seed, n + 2), 20, 10),
                  rotation |-> Scaled(MathRandom(seed, n + 3), 60, 30)],
     rightArm |-> [x |-> Scaled(MathRandom(seed, n + 4), 40, 20),
                   y |-> Scaled(MathRandom(seed, n + 5), 20, 10),
                   rotation |-> Scaled(MathRandom(seed, n + 6), 60, 30)],
     head |-> [rotation |-> Scaled(MathRandom(seed, n + 7), 20, 10)]]

\* The draws the lookup of one word consumes.
DrawsFor(word) ==
    IF word \in TabledWords \/ word \in ObjectPrototypeKeys THEN 0 ELSE 7

getGestureForWord(word, seed, n) ==
    IF word \in TabledWords THEN gestures(word)
    ELSE IF word \in ObjectPrototypeKeys
         THEN [leftArm |-> Undefined, rightArm |-> Undefined, head |-> Undefined]
         ELSE RandomGesture(seed, n)

(***************************************************************************)
(* getExpressionForWord                                                    *)
(***************************************************************************)
getExpressionForWordSwapped(word) ==
    IF word \in {"good", "great", "wonderful", "happy", "thank", "what"}
    THEN "happy"
    ELSE IF word \in {"what", "how", "why", "when", "where", "?"}
         THEN "questioning"
         ELSE "neutral"

getExpressionForWord(word) ==
    IF word \in {"good", "great", "wonderful", "happy", "thank"}
    THEN "happy"
    ELSE IF word \in {"what", "how", "why", "when", "where", "?"}
         THEN "questioning"
         ELSE "neutral"

(***************************************************************************)
(* textToAnimation                                                         *)
(***************************************************************************)
RestKeyframe(t) ==
    [timestamp |-> t,
     leftArm |-> [x |-> 0, y |-> 0, rotation |-> 0],
     rightArm |-> [x |-> 0, y |-> 0, rotation |-> 0],
     head |-> [rotation |-> 0],
     expression |-> "neutral"]

WordKeyframe(t, word, seed, n) ==
    LET gesture == getGestureForWord(word, seed, n)
    IN  [timestamp |-> t,
         leftArm |-> gesture.leftArm,
         rightArm |-> gesture.rightArm,
         head |-> gesture.head,
         expression |-> getExpressionForWord(word)]

\* words.forEach: st carries keyframes, currentTime and the draws made.
RECURSIVE ForEachWord(_, _, _, _)
ForEachWord(words, i, seed, st) ==
    IF i > Len(words) THEN st
    ELSE LET t == st.currentTime + WordDurationMs
         IN  ForEachWord(words, i + 1, seed,
                 [keyframes |-> Append(st.keyframes,
                                       WordKeyframe(t, words[i], seed, st.draws)),
                  currentTime |-> t,
                  draws |-> st.draws + DrawsFor(words[i])])

textToAnimationNoClosing(t, seed) ==
    LET st == ForEachWord(split(t), 1, seed,
                  [keyframes |-> <<RestKeyframe(0)>>, currentTime |-> 0, draws |-> 0])
    IN  [name |-> "text-response",
         keyframes |-> st.keyframes,
         duration |-> st.currentTime + RestPaddingMs]

textToAnimation(t, seed) ==
    LET st == ForEachWord(split(t), 1, seed,
                  [keyframes |-> <<RestKeyframe(0)>>, currentTime |-> 0, draws |-> 0])
        end == st.currentTime + RestPaddingMs
    IN  [name |-> "text-response",
         keyframes |-> Append(st.keyframes, RestKeyframe(end)),
         duration |-> end]

(***************************************************************************)
(* The synthesizer alone: one call of textToAnimation per input text.      *)
(***************************************************************************)
PlayerInit ==
    /\ canvasReady = FALSE
    /\ currentAnimation = NoAnimation
    /\ animationStartTime = 0
    /\ isAnimating = FALSE
    /\ now = 0
    /\ plays = <<>>
    /\ rafQueue = <<>>
    /\ lastOp = [op |-> "init"]
    /\ lastRenders = <<>>
    /\ stoppedSince = FALSE
    /\ stoppedUpTo = 0
    /\ InterpInit
    /\ ClassifierInit
    /\ RecorderInit
    /\ ChatInit

SynthInit ==
    /\ text \in Texts
    /\ animation = NoAnimation
    /\ PlayerInit

Synthesize ==
    /\ animation = NoAnimation
    /\ \E seed \in Seeds : animation' = textToAnimation(text, seed)
    /\ UNCHANGED <<text, canvasReady, currentAnimation, animationStartTime,
                   isAnimating, now, plays, rafQueue, lastOp, lastRenders,
                   stoppedSince, stoppedUpTo>>
    /\ UNCHANGED <<interpVars, classifierVars, recorderVars, chatVars>>

SynthNext == Synthesize

SynthSpec == SynthInit /\ [][SynthNext]_vars

(***************************************************************************)
(* interpolatePose: the bracket search, and whether reading the bracket's  *)
(* pose fields throws (a keyframe without leftArm, rightArm or head).      *)
(***************************************************************************)
RECURSIVE FindBracketStrict(_, _, _)
FindBracketStrict(keyframes, elapsed, i) ==
    IF i > Len(keyframes) - 1 THEN [prev |-> 1, next |-> Len(keyframes)]
    ELSE IF elapsed > keyframes[i].timestamp /\ elapsed < keyframes[i + 1].timestamp
         THEN [prev |-> i, next |-> i + 1]
         ELSE FindBracketStrict(keyframes, elapsed, i + 1)

RECURSIVE FindBracket(_, _, _)
FindBracket(keyframes, elapsed, i) ==
    IF i > Len(keyframes) - 1 THEN [prev |-> 1, next |-> Len(keyframes)]
    ELSE IF elapsed >= keyframes[i].timestamp /\ elapsed <= keyframes[i + 1].timestamp
         THEN [prev |-> i, next |-> i + 1]
         ELSE FindBracket(keyframes, elapsed, i + 1)

HasPose(keyframe) ==
    /\ keyframe.leftArm # Undefined
    /\ keyframe.rightArm # Undefined
    /\ keyframe.head # Undefined

interpolatePoseThrows(anim, elapsed) ==
    LET b == FindBracket(anim.keyframes, elapsed, 1)
    IN  ~(HasPose(anim.keyframes[b.prev]) /\ HasPose(anim.keyframes[b.next]))

(***************************************************************************)
(* interpolatePose: the pose it returns.  A number it computes is kept as  *)
(* the exact fraction num / den, den > 0.                                  *)
(***************************************************************************)
\* Spacing of the elapsed times interpolatePose is called with, milliseconds.
InterpStepMs == 125

Rational(num, den) == [num |-> num, den |-> den]

\* duration > 0 ? (elapsed - prevFrame.timestamp) / duration : 0
Progress(prevFrame, nextFrame, elapsed) ==
    LET duration == nextFrame.timestamp - prevFrame.timestamp
    IN  IF duration > 0 THEN Rational(elapsed - prevFrame.timestamp, duration)
        ELSE Rational(0, 1)

LerpFromNext(prev, next, progress) ==
    Rational(next * progress.den + (prev - next) * progress.num, progress.den)

\* prev + (next - prev) * progress
Lerp(prev, next, progress) ==
    Rational(prev * progress.den + (next - prev) * progress.num, progress.den)

LerpArm(prev, next, progress) ==
    [x |-> Lerp(prev.x, next.x, progress),
     y |-> Lerp(prev.y, next.y, progress),
     rotation |-> Lerp(prev.rotation, next.rotation, progress)]

\* What a call that throws leaves in place of a pose.
Threw == [threw |-> TRUE]

StepExpressionAfterHalf(prevFrame, nextFrame, progress) ==
    IF 2 * progress.num <= progress.den
    THEN prevFrame.expression
    ELSE nextFrame.expression

\* progress < 0.5 ? prevFrame.expression : nextFrame.expression
StepExpression(prevFrame, nextFrame, progress) ==
    IF 2 * progress.num < progress.den
    THEN prevFrame.expression
    ELSE nextFrame.expression

interpolatePose(anim, elapsed) ==
    IF interpolatePoseThrows(anim, elapsed) THEN Threw
    ELSE LET b == FindBracket(anim.keyframes, elapsed, 1)
             prevFrame == anim.keyframes[b.prev]
             nextFrame == anim.keyframes[b.next]
             progress == Progress(prevFrame, nextFrame, elapsed)
         IN  [timestamp |-> elapsed,
              leftArm |-> LerpArm(prevFrame.leftArm, nextFrame.leftArm, progress),
              rightArm |-> LerpArm(prevFrame.rightArm, nextFrame.rightArm, progress),
              head |-> [rotation |-> Lerp(prevFrame.head.rotation,
                                          nextFrame.head.rotation, progress)],
              expression |-> StepExpression(prevFrame, nextFrame, progress)]

\* The elapsed times of one animation: every InterpStepMs from 0 to its
\* duration.
ElapsedSamples(anim) ==
    {k * InterpStepMs : k \in 0..(anim.duration \div InterpStepMs)}

\* renderFrame's call of interpolatePose on a synthesized animation.
Interpolate ==
    /\ animation # NoAnimation
    /\ pose = NoPose
    /\ \E e \in ElapsedSamples(animation) :
          /\ elapsedArg' = e
          /\ pose' = interpolatePose(animation, e)
    /\ UNCHANGED <<text, animation, playerVars, classifierVars, recorderVars,
                   chatVars>>

InterpNext ==
    \/ Synthesize
    \/ Interpolate

InterpSpec == SynthInit /\ [][InterpNext]_vars

(***************************************************************************)
(* playAnimation's animate closure.  st is the state the callbacks of one  *)
(* run share: the player's fields, the promises, the callbacks registered  *)
(* for the next frame, and the history of the run.                         *)
(***************************************************************************)
InactiveNoFlag(st) == st.currentAnimation = NoAnimation

\* !this.isAnimating || !this.currentAnimation
Inactive(st) == ~st.isAnimating \/ st.currentAnimation = NoAnimation

TickAnimationCaptured(id, st) == st.plays[id].animation

\* The animation a tick of play id reads: this.currentAnimation.
TickAnimation(id, st) == st.currentAnimation

FinishedStrict(elapsed, duration) == elapsed > duration

\* elapsed >= this.currentAnimation.duration
Finished(elapsed, duration) == elapsed >= duration

Resolve(st, id) ==
    IF st.plays[id].status = "pending"
    THEN [st EXCEPT !.plays[id].status = "resolved"]
    ELSE st

\* renderFrame(elapsed): [threw, st]
renderFrame(id, elapsed, st) ==
    IF ~canvasReady \/ st.currentAnimation = NoAnimation
    THEN [threw |-> FALSE, st |-> st]
    ELSE IF interpolatePoseThrows(TickAnimation(id, st), elapsed)
         THEN [threw |-> TRUE, st |-> st]
         ELSE [threw |-> FALSE,
               st |-> [st EXCEPT !.renders =
                          Append(@, [by |-> id,
                                     animation |-> TickAnimation(id, st),
                                     elapsed |-> elapsed,
                                     active |-> st.isAnimating])]]

\* One call of animate for play id.  inExecutor: the synchronous call inside
\* the promise executor, where a throw rejects the promise; a throw in a
\* frame callback is reported by the scheduler and leaves the promise pending.
animate(id, st, inExecutor) ==
    IF Inactive(st) THEN Resolve(st, id)
    ELSE LET elapsed == (now - st.animationStartTime) * ClockUnitMs
         IN  IF Finished(elapsed, TickAnimation(id, st).duration)
             THEN [Resolve(st, id) EXCEPT !.isAnimating = FALSE,
                                          !.done = @ \cup {id}]
             ELSE LET r == renderFrame(id, elapsed, st)
                  IN  IF r.threw
                      THEN IF inExecutor
                           THEN [st EXCEPT !.plays[id].status = "rejected"]
                           ELSE st
                      ELSE [r.st EXCEPT !.rafQueue = Append(@, id)]

(***************************************************************************)
(* The player's operations.                                                *)
(***************************************************************************)
\* The responses the player is given: one word, two words, and a response
\* whose second word is a name the gesture table inherits.
PlayerTexts == {<<"hello">>, <<"thank", Space, "you">>,
                <<"hello", Space, "constructor">>}

Shared ==
    [currentAnimation |-> currentAnimation,
     animationStartTime |-> animationStartTime,
     isAnimating |-> isAnimating,
     plays |-> plays,
     rafQueue |-> <<>>,
     renders |-> <<>>,
     done |-> {}]

\* AvatarService.initialize(canvas)
Initialize ==
    /\ ~canvasReady
    /\ canvasReady' = TRUE
    /\ lastOp' = [op |-> "initialize"]
    /\ lastRenders' = <<>>
    /\ UNCHANGED <<text, animation, currentAnimation, animationStartTime,
                   isAnimating, now, plays, rafQueue, stoppedSince, stoppedUpTo>>
    /\ UNCHANGED <<interpVars, classifierVars, recorderVars, chatVars>>

\* animateText before initialize: returns at once.
AnimateTextNoCanvas ==
    /\ ~canvasReady
    /\ lastOp' = [op |-> "animateText", played |-> FALSE]
    /\ lastRenders' = <<>>
    /\ UNCHANGED <<text, animation, canvasReady, currentAnimation,
                   animationStartTime, isAnimating, now, plays, rafQueue,
                   stoppedSince, stoppedUpTo>>
    /\ UNCHANGED <<interpVars, classifierVars, recorderVars, chatVars>>

\* playAnimation(anim): the promise executor sets the three fields and calls
\* animate once, synchronously.
playAnimation(anim) ==
    LET id == Len(plays) + 1
        st0 == [Shared EXCEPT
                   !.currentAnimation = anim,
                   !.animationStartTime = now,
                   !.isAnimating = TRUE,
                   !.plays = Append(plays, [status |-> "pending",
                                            animation |-> anim,
                                            startedAt |-> now,
                                            whileActive |-> isAnimating]),
                   !.rafQueue = rafQueue]
        st == animate(id, st0, TRUE)
    IN  /\ currentAnimation' = st.currentAnimation
        /\ animationStartTime' = st.animationStartTime
        /\ isAnimating' = st.isAnimating
        /\ plays' = st.plays
        /\ rafQueue' = st.rafQueue
        /\ lastRenders' = st.renders
        /\ lastOp' = [op |-> "animateText", played |-> TRUE]
        /\ stoppedSince' = FALSE
        /\ UNCHANGED stoppedUpTo

\* animateText(text) once the canvas is set: textToAnimation, then playAnimation.
AnimateText ==
    /\ canvasReady
    /\ Len(plays) < MaxPlays
    /\ \E t \in PlayerTexts, seed \in Seeds :
          LET anim == textToAnimation(t, seed)
          IN  /\ (MaxNow - now) * ClockUnitMs >= anim.duration
              /\ playAnimation(anim)
    /\ UNCHANGED <<text, animation, canvasReady, now>>
    /\ UNCHANGED <<interpVars, classifierVars, recorderVars, chatVars>>

\* stopAnimation()
StopAnimation ==
    /\ isAnimating' = FALSE
    /\ stoppedSince' = TRUE
    /\ stoppedUpTo' = Len(plays)
    /\ lastOp' = [op |-> "stop"]
    /\ lastRenders' = <<>>
    /\ UNCHANGED <<text, animation, canvasReady, currentAnimation,
                   animationStartTime, now, plays, rafQueue>>
    /\ UNCHANGED <<interpVars, classifierVars, recorderVars, chatVars>>

RECURSIVE RunCallbacks(_, _, _)
RunCallbacks(queue, i, st) ==
    IF i > Len(queue) THEN st
    ELSE RunCallbacks(queue, i + 1, animate(queue[i], st, FALSE))

\* One frame of the scheduler: every callback registered before the frame
\* runs, in registration order; what a callback registers waits for the
\* next frame.
Frame ==
    /\ rafQueue # <<>>
    /\ LET st == RunCallbacks(rafQueue, 1, Shared)
       IN  /\ isAnimating' = st.isAnimating
           /\ plays' = st.plays
           /\ rafQueue' = st.rafQueue
           /\ lastRenders' = st.renders
           /\ lastOp' = [op |-> "frame", fired |-> rafQueue, done |-> st.done]
    /\ UNCHANGED <<text, animation, canvasReady, currentAnimation,
                   animationStartTime, now, stoppedSince, stoppedUpTo>>
    /\ UNCHANGED <<interpVars, classifierVars, recorderVars, chatVars>>

\* Date.now() advances.
ClockAdvance ==
    /\ now < MaxNow
    /\ now' = now + 1
    /\ lastOp' = [op |-> "clock"]
    /\ lastRenders' = <<>>
    /\ UNCHANGED <<text, animation, canvasReady, currentAnimation,
                   animationStartTime, isAnimating, plays, rafQueue,
                   stoppedSince, stoppedUpTo>>
    /\ UNCHANGED <<interpVars, classifierVars, recorderVars, chatVars>>

Init ==
    /\ text = <<>>
    /\ animation = NoAnimation
    /\ PlayerInit

Next ==
    \/ Initialize
    \/ AnimateTextNoCanvas
    \/ AnimateText
    \/ StopAnimation
    \/ Frame
    \/ ClockAdvance

Spec == Init /\ [][Next]_vars

\* The scheduler keeps running frames and the clock keeps advancing.
LiveSpec == Spec /\ WF_vars(Frame) /\ WF_vars(ClockAdvance)

(***************************************************************************)
(* GestureRecognitionService (gestureRecognition.ts): initialize,          *)
(* doInitialize and processFrame.  initializationPromise is "null",        *)
(* "pending" or "fulfilled"; a caller of initialize() is "idle" before its *)
(* call, "waiting" while its promise is pending, then "resolved" or        *)
(* "rejected".                                                             *)
(***************************************************************************)
GestureLabels == <<"hello", "thank you", "please", "yes", "no",
                   "help", "good", "bad", "more", "stop">>

\* gestures[Math.floor(Math.random() * gestures.length)], the draw k / LabelRes
simulateGestureRecognition(k) ==
    GestureLabels[((Len(GestureLabels) * k) \div LabelRes) + 1]

\* Math.random() * 0.4 + 0.6, in thousandths, the draw k / RandRes
Confidence(k) == 600 + ((400 * k) \div RandRes)

\* The video element a frame is read from.
Frames == [paused : BOOLEAN, videoWidth : {0, 640}, videoHeight : {0, 480}]

processFrameUnchecked(frame, kGesture, kConf) ==
    IF frame.videoWidth = 0 \/ frame.videoHeight = 0
    THEN [outcome |-> "none"]
    ELSE [outcome |-> "sample",
          gesture |-> simulateGestureRecognition(kGesture),
          confidence |-> Confidence(kConf)]

processFrameNoDimensionTest(frame, kGesture, kConf) ==
    IF ~initialized \/ ~model
    THEN [outcome |-> "error"]
    ELSE [outcome |-> "sample",
          gesture |-> simulateGestureRecognition(kGesture),
          confidence |-> Confidence(kConf)]

\* processFrame(videoElement): the rejection, null, or the GestureData
processFrame(frame, kGesture, kConf) ==
    IF ~initialized \/ ~model
    THEN [outcome |-> "error"]
    ELSE IF frame.videoWidth = 0 \/ frame.videoHeight = 0
         THEN [outcome |-> "none"]
         ELSE [outcome |-> "sample",
               gesture |-> simulateGestureRecognition(kGesture),
               confidence |-> Confidence(kConf)]

HasPromiseNever == FALSE

\* if (this.initializationPromise): an attempt's promise is stored
HasPromise == initializationPromise # "null"

\* What a caller handed the stored promise p sees of it at once.
AwaitPromise(p) ==
    IF p = "pending" THEN "waiting"
    ELSE IF p = "fulfilled" THEN "resolved" ELSE "rejected"

\* initialize() called by caller c
ServiceInitialize(c) ==
    /\ callers[c] # "waiting"
    /\ IF initialized
       THEN /\ callers' = [callers EXCEPT ![c] = "resolved"]
            /\ UNCHANGED <<initializationPromise, setups>>
       ELSE IF HasPromise
            THEN /\ callers' = [callers EXCEPT
                                  ![c] = AwaitPromise(initializationPromise)]
                 /\ UNCHANGED <<initializationPromise, setups>>
            ELSE /\ setups < MaxSetups
                 /\ initializationPromise' = "pending"
                 /\ setups' = setups + 1
                 /\ callers' = [callers EXCEPT ![c] = "waiting"]
    /\ lastClassify' = [called |-> FALSE]
    /\ UNCHANGED <<initialized, model, failures>>

Settle(outcome) ==
    [c \in Callers |-> IF callers[c] = "waiting" THEN outcome ELSE callers[c]]

\* doInitialize: tf.ready() and createDemoModel() succeed.
SetupSucceeds ==
    /\ initializationPromise = "pending"
    /\ model' = TRUE
    /\ initialized' = TRUE
    /\ initializationPromise' = "fulfilled"
    /\ callers' = Settle("resolved")
    /\ lastClassify' = [called |-> FALSE]
    /\ UNCHANGED <<setups, failures>>

CatchKeepsPromise == "rejected"

\* the catch block's this.initializationPromise = null
CatchBlock == "null"

\* doInitialize: tf.ready() or createDemoModel() rejects; the catch block
\* runs, then the attempt's promise rejects.
SetupFails ==
    /\ initializationPromise = "pending"
    /\ initializationPromise' = CatchBlock
    /\ failures' = failures + 1
    /\ callers' = Settle("rejected")
    /\ lastClassify' = [called |-> FALSE]
    /\ UNCHANGED <<initialized, model, setups>>

\* processFrame(videoElement) called on the service.
ProcessFrameCall ==
    /\ \E frame \in Frames, kGesture \in 0..(LabelRes - 1),
          kConf \in 0..(RandRes - 1) :
          lastClassify' = [called |-> TRUE,
                           frame |-> frame,
                           result |-> processFrame(frame, kGesture, kConf)]
    /\ UNCHANGED <<initialized, model, initializationPromise, callers, setups,
                   failures>>

Others == <<synthVars, playerVars, interpVars, recorderVars, chatVars>>

ClassifierNext ==
    \/ \E c \in Callers : ServiceInitialize(c) /\ UNCHANGED Others
    \/ SetupSucceeds /\ UNCHANGED Others
    \/ SetupFails /\ UNCHANGED Others
    \/ ProcessFrameCall /\ UNCHANGED Others

ClassifierSpec == Init /\ [][ClassifierNext]_vars

(***************************************************************************)
(* VideoInput (VideoInput.tsx): the recording controls and the sampling    *)
(* loop.  gestureQueue is the useState value of the last render, the one   *)
(* the handlers of that render close over; a setGestureQueue call made     *)
(* outside an event handler waits in queueUpdates until the next render    *)
(* applies it.  A handler's own updates are rendered when it returns.      *)
(* One processFrame tick is one step: the promise it awaits is already     *)
(* settled when service.processFrame returns, so the rest of the tick runs *)
(* before any other callback or event.                                     *)
(***************************************************************************)
\* gestureData.confidence > 0.7, in thousandths
ConfidenceThreshold == 700

AppendUpdate(gesture) == [kind |-> "append", gesture |-> gesture]
\* setGestureQueue([])
ResetUpdate == [kind |-> "reset"]

AppendAlways(prev, gesture) == Append(prev, gesture)

AppendIfNew(prev, gesture) ==
    IF \E i \in 1..Len(prev) : prev[i] = gesture THEN prev
    ELSE Append(prev, gesture)

\* The updater of VideoInput.tsx:88-93.
AppendDistinct(prev, gesture) ==
    IF Len(prev) = 0 \/ prev[Len(prev)] # gesture
    THEN Append(prev, gesture)
    ELSE prev

ApplyUpdate(prev, update) ==
    IF update.kind = "reset" THEN <<>> ELSE AppendDistinct(prev, update.gesture)

\* A render: the waiting updates applied in the order of their calls.
RECURSIVE ApplyUpdates(_, _, _)
ApplyUpdates(prev, updates, i) ==
    IF i > Len(updates) THEN prev
    ELSE ApplyUpdates(ApplyUpdate(prev, updates[i]), updates, i + 1)

PassesGateAlways(result) == result.outcome = "sample"

\* gestureData && gestureData.confidence > 0.7
PassesGate(result) ==
    result.outcome = "sample" /\ result.confidence > ConfidenceThreshold

processFrameTickStopsOnNone(updates, adm, frame, kGesture, kConf) ==
    IF frame.paused
    THEN [armed |-> FALSE, updates |-> updates, admitted |-> adm,
          result |-> [outcome |-> "skipped"]]
    ELSE LET result == processFrame(frame, kGesture, kConf)
         IN  IF PassesGate(result)
             THEN [armed |-> TRUE,
                   updates |-> Append(updates, AppendUpdate(result.gesture)),
                   admitted |-> Append(adm, result.gesture),
                   result |-> result]
             ELSE [armed |-> result.outcome # "none", updates |-> updates,
                   admitted |-> adm, result |-> result]

\* One call of the effect's processFrame: whether it re-arms, the updates
\* waiting after it, the session's admitted labels, and what the service
\* returned.
processFrameTick(updates, adm, frame, kGesture, kConf) ==
    IF frame.paused
    THEN [armed |-> FALSE, updates |-> updates, admitted |-> adm,
          result |-> [outcome |-> "skipped"]]
    ELSE LET result == processFrame(frame, kGesture, kConf)
         IN  IF PassesGate(result)
             THEN [armed |-> TRUE,
                   updates |-> Append(updates, AppendUpdate(result.gesture)),
                   admitted |-> Append(adm, result.gesture),
                   result |-> result]
             ELSE [armed |-> TRUE, updates |-> updates, admitted |-> adm,
                   result |-> result]

\* The loop effect after a render that changed isRecording or isVideoReady:
\* the cleanup has cancelled the registered frame, and processFrame() is
\* called at once when both hold.
LoopEffect(recording, ready, adm, frame, kGesture, kConf) ==
    IF recording /\ ready
    THEN processFrameTick(<<>>, adm, frame, kGesture, kConf)
    ELSE [armed |-> FALSE, updates |-> <<>>, admitted |-> adm,
          result |-> [outcome |-> "idle"]]

cancelAnimationFrameNoop(armed) == armed

\* The effect's cleanup: the frame its chain registered, if any, is cancelled.
cancelAnimationFrame(armed) == IF armed > 0 THEN armed - 1 ELSE 0

RegisteredTwice(armed) == IF armed THEN 2 ELSE 0

\* requestAnimationFrame(processFrame) when the tick re-arms
Registered(armed) == IF armed THEN 1 ELSE 0

HasGesturesAlways(queue) == TRUE

\* gestureQueue.length > 0
HasGestures(queue) == Len(queue) > 0

WithinBounds(e) ==
    /\ Len(e.updates) <= MaxPending
    /\ Len(e.admitted) <= MaxAdmitted

\* gestureMap[gesture] || gesture
gestureMap(gesture) ==
    CASE gesture = "hello" -> "Hello"
      [] gesture = "thank you" -> "Thank you"
      [] gesture = "please" -> "Please"
      [] gesture = "yes" -> "Yes"
      [] gesture = "no" -> "No"
      [] gesture = "help" -> "I need help"
      [] gesture = "good" -> "Good"
      [] gesture = "bad" -> "Bad"
      [] gesture = "more" -> "More"
      [] gesture = "stop" -> "Stop"
      [] OTHER -> gesture

\* gestures.map(...).join(' '): the text as its phrases and the separators
\* between them.
RECURSIVE JoinFrom(_, _, _)
JoinFrom(queue, i, acc) ==
    IF i > Len(queue) THEN acc
    ELSE JoinFrom(queue, i + 1,
                  IF i = 1 THEN <<gestureMap(queue[i])>>
                  ELSE acc \o <<Space, gestureMap(queue[i])>>)

convertGestureToText(queue) == JoinFrom(queue, 1, <<>>)

\* The draws a tick on the frame can make: Math.random() is called only when
\* the frame is classified.
Draws(frame, res) ==
    IF frame.paused \/ frame.videoWidth = 0 \/ frame.videoHeight = 0
    THEN {0}
    ELSE 0..(res - 1)

StartEnabledAlways == TRUE

\* The Start Recording button: disabled={!gestureRecognitionService.isInitialized()}
StartEnabled == initialized

\* The mount effect: gestureRecognitionService.initialize()
MountInitialize ==
    /\ mounted
    /\ callers[1] = "idle"
    /\ ServiceInitialize(1)
    /\ UNCHANGED <<synthVars, playerVars, interpVars, recorderVars, chatVars>>

\* startRecording while stream is set: setGestureQueue([]), setIsRecording(true),
\* then the render and the loop effect.
StartRecording ==
    /\ mounted
    /\ ~isRecording
    /\ StartEnabled
    /\ stream
    /\ ~starting
    /\ sessions < MaxSessions
    /\ \E frame \in Frames :
       \E kGesture \in Draws(frame, LabelRes), kConf \in Draws(frame, RandRes) :
          LET e == LoopEffect(TRUE, isVideoReady, <<>>, frame, kGesture, kConf)
          IN  /\ WithinBounds(e)
              /\ gestureQueue' =
                     ApplyUpdates(gestureQueue, Append(queueUpdates, ResetUpdate), 1)
              /\ queueUpdates' = e.updates
              /\ loopArmed' = cancelAnimationFrame(loopArmed) + Registered(e.armed)
              /\ admitted' = e.admitted
              /\ lastRec' = [op |-> "start", result |-> e.result]
    /\ isRecording' = TRUE
    /\ sessions' = sessions + 1
    /\ UNCHANGED <<stream, starting, isVideoReady, messageCount>>
    /\ UNCHANGED mounted
    /\ UNCHANGED <<synthVars, playerVars, interpVars, classifierVars, chatVars>>

\* startRecording while stream is null, up to its await of startCamera().
StartRecordingNoStream ==
    /\ mounted
    /\ ~isRecording
    /\ StartEnabled
    /\ ~stream
    /\ ~starting
    /\ sessions < MaxSessions
    /\ starting' = TRUE
    /\ isVideoReady' = FALSE
    /\ gestureQueue' = ApplyUpdates(gestureQueue, queueUpdates, 1)
    /\ queueUpdates' = <<>>
    /\ lastRec' = [op |-> "startCamera"]
    /\ UNCHANGED <<isRecording, stream, loopArmed, admitted, sessions,
                   messageCount>>
    /\ UNCHANGED mounted
    /\ UNCHANGED <<synthVars, playerVars, interpVars, classifierVars, chatVars>>

\* getUserMedia settles and startRecording resumes: setStream on success,
\* then setGestureQueue([]) and setIsRecording(true) either way.  After an
\* unmount only the store's setter has an effect.
CameraSettles ==
    /\ starting
    /\ \E granted \in BOOLEAN : stream' = (mounted /\ granted)
    /\ starting' = FALSE
    /\ gestureQueue' =
           ApplyUpdates(gestureQueue, Append(queueUpdates, ResetUpdate), 1)
    /\ queueUpdates' = <<>>
    /\ admitted' = <<>>
    /\ isRecording' = TRUE
    /\ loopArmed' = IF mounted THEN cancelAnimationFrame(loopArmed)
                    ELSE loopArmed
    /\ sessions' = sessions + 1
    /\ lastRec' = [op |-> "start", result |-> [outcome |-> "idle"]]
    /\ UNCHANGED <<isVideoReady, messageCount>>
    /\ UNCHANGED mounted
    /\ UNCHANGED <<synthVars, playerVars, interpVars, classifierVars, chatVars>>

\* The video's loadedmetadata and play(): setIsVideoReady(true), then the
\* render and the loop effect.
VideoReady ==
    /\ mounted
    /\ stream
    /\ ~isVideoReady
    /\ isVideoReady' = TRUE
    /\ \E frame \in Frames :
       \E kGesture \in Draws(frame, LabelRes), kConf \in Draws(frame, RandRes) :
          LET e == LoopEffect(isRecording, TRUE, admitted, frame, kGesture, kConf)
          IN  /\ WithinBounds(e)
              /\ gestureQueue' = ApplyUpdates(gestureQueue, queueUpdates, 1)
              /\ queueUpdates' = e.updates
              /\ loopArmed' = cancelAnimationFrame(loopArmed) + Registered(e.armed)
              /\ admitted' = e.admitted
              /\ lastRec' = [op |-> "videoReady", result |-> e.result]
    /\ UNCHANGED <<isRecording, stream, starting, sessions, messageCount>>
    /\ UNCHANGED mounted
    /\ UNCHANGED <<synthVars, playerVars, interpVars, classifierVars, chatVars>>

\* The frame callback: processFrame registered by the previous tick.
Tick ==
    /\ loopArmed > 0
    /\ \E frame \in Frames :
       \E kGesture \in Draws(frame, LabelRes), kConf \in Draws(frame, RandRes) :
          LET e == processFrameTick(queueUpdates, admitted, frame, kGesture, kConf)
          IN  /\ WithinBounds(e)
              /\ queueUpdates' = e.updates
              /\ loopArmed' = (loopArmed - 1) + Registered(e.armed)
              /\ admitted' = e.admitted
              /\ lastRec' = [op |-> "tick", result |-> e.result,
                              afterNone |-> /\ lastRec.op = "tick"
                                            /\ lastRec.result.outcome = "none"]
    /\ UNCHANGED <<isRecording, stream, starting, isVideoReady, gestureQueue,
                   sessions, messageCount>>
    /\ UNCHANGED mounted
    /\ UNCHANGED <<synthVars, playerVars, interpVars, classifierVars, chatVars>>

\* The render the ticks' updates were waiting for.
Render ==
    /\ mounted
    /\ queueUpdates # <<>>
    /\ gestureQueue' = ApplyUpdates(gestureQueue, queueUpdates, 1)
    /\ queueUpdates' = <<>>
    /\ lastRec' = [op |-> "render"]
    /\ UNCHANGED <<isRecording, stream, starting, isVideoReady, loopArmed,
                   admitted, sessions, messageCount>>
    /\ UNCHANGED mounted
    /\ UNCHANGED <<synthVars, playerVars, interpVars, classifierVars, chatVars>>

\* stopRecording, the handler of the render it was created in, then the
\* render and the loop effect's cleanup.
StopRecording ==
    /\ mounted
    /\ isRecording
    /\ isRecording' = FALSE
    /\ LET produced == HasGestures(gestureQueue)
           updates == IF produced THEN Append(queueUpdates, ResetUpdate)
                      ELSE queueUpdates
       IN  /\ messageCount' = IF produced THEN messageCount + 1 ELSE messageCount
           /\ gestureQueue' = ApplyUpdates(gestureQueue, updates, 1)
           /\ lastRec' = [op |-> "stop",
                          produced |-> produced,
                          text |-> IF produced
                                   THEN convertGestureToText(gestureQueue)
                                   ELSE <<>>,
                          submitted |-> ApplyUpdates(gestureQueue, queueUpdates, 1)]
    /\ queueUpdates' = <<>>
    /\ loopArmed' = cancelAnimationFrame(loopArmed)
    /\ UNCHANGED <<stream, starting, isVideoReady, admitted, sessions>>
    /\ UNCHANGED mounted
    /\ UNCHANGED <<synthVars, playerVars, interpVars, classifierVars, chatVars>>

\* stopCamera, offered while stream is set and isRecording is false.
StopCamera ==
    /\ mounted
    /\ stream
    /\ ~isRecording
    /\ stream' = FALSE
    /\ isVideoReady' = FALSE
    /\ gestureQueue' = ApplyUpdates(gestureQueue, queueUpdates, 1)
    /\ queueUpdates' = <<>>
    /\ loopArmed' = cancelAnimationFrame(loopArmed)
    /\ lastRec' = [op |-> "stopCamera"]
    /\ UNCHANGED <<isRecording, starting, admitted, sessions, messageCount>>
    /\ UNCHANGED mounted
    /\ UNCHANGED <<synthVars, playerVars, interpVars, classifierVars, chatVars>>

\* The mode is switched to text: VideoInput unmounts, its effects' cleanups
\* run and its state is dropped; the store keeps isRecording.
Unmount ==
    /\ mounted
    /\ mounted' = FALSE
    /\ loopArmed' = cancelAnimationFrame(loopArmed)
    /\ stream' = FALSE
    /\ isVideoReady' = FALSE
    /\ gestureQueue' = <<>>
    /\ queueUpdates' = <<>>
    /\ admitted' = <<>>
    /\ lastRec' = [op |-> "unmount", wasArmed |-> loopArmed > 0]
    /\ UNCHANGED <<isRecording, starting, sessions, messageCount>>
    /\ UNCHANGED <<synthVars, playerVars, interpVars, classifierVars, chatVars>>

\* The mode is switched back to sign: a new VideoInput mounts, and its mount
\* effect calls initialize().  (A getUserMedia call of the instance before
\* it has settled.)
Remount ==
    /\ ~mounted
    /\ ~starting
    /\ mounted' = TRUE
    /\ ServiceInitialize(1)
    /\ lastRec' = [op |-> "mount"]
    /\ UNCHANGED <<isRecording, stream, starting, isVideoReady, gestureQueue,
                   queueUpdates, loopArmed, admitted, sessions, messageCount>>
    /\ UNCHANGED <<synthVars, playerVars, interpVars, chatVars>>

RecorderNext ==
    \/ MountInitialize
    \/ SetupSucceeds /\ UNCHANGED Others
    \/ SetupFails /\ UNCHANGED Others
    \/ StartRecording
    \/ StartRecordingNoStream
    \/ CameraSettles
    \/ VideoReady
    \/ Tick
    \/ Render
    \/ StopRecording
    \/ StopCamera
    \/ Unmount
    \/ Remount

RecorderSpec == Init /\ [][RecorderNext]_vars

(***************************************************************************)
(* App (App.tsx), with TextInput, the quick actions, the message a stopped *)
(* sign recording adds, LLMService.generateResponse and the Avatar         *)
(* component's effects.  A handler, the render it causes and the effects   *)
(* of that render are one step; an awaited generateResponse call is in     *)
(* flight between the step that starts it and the step that resumes the    *)
(* handler.                                                                *)
(***************************************************************************)
\* What the user types, picks or signs: App passes it to the language
\* model and reads nothing of it.
UserInputs == {<<"Hello">>}

\* The texts the language model answers with.
Replies == {<<"hello">>, <<"thank", Space, "you">>}

\* How a generateContent call ends: a text, a response with no text, or a
\* failure (init() or generateContent rejects, or the result has no response).
LLMOutcomes ==
    {[kind |-> "text", text |-> r] : r \in Replies}
        \cup {[kind |-> "empty"], [kind |-> "error"]}

NoTextMessage ==
    <<"Sorry,", Space, "I", Space, "couldn't", Space, "generate", Space,
      "a", Space, "response.">>

ConnectionTroubleMessage ==
    <<"I'm", Space, "having", Space, "trouble", Space, "connecting", Space,
      "to", Space, "the", Space, "AI", Space, "service", Space, "right", Space,
      "now.", Space, "Please", Space, "try", Space, "again", Space, "later.">>

\* The content of the bot message App's catch block adds.
ProcessingTroubleMessage ==
    <<"I'm", Space, "sorry,", Space, "I'm", Space, "having", Space,
      "trouble", Space, "processing", Space, "your", Space, "message", Space,
      "right", Space, "now.", Space, "Please", Space, "try", Space, "again.">>

\* generateResponse(userInput): how the returned promise settles.  The try
\* block spans the whole body and the catch block returns a string.
generateResponse(outcome) ==
    CASE outcome.kind = "text" -> [rejected |-> FALSE, value |-> outcome.text]
      [] outcome.kind = "empty" -> [rejected |-> FALSE, value |-> NoTextMessage]
      [] outcome.kind = "error" ->
            [rejected |-> FALSE, value |-> ConnectionTroubleMessage]

BotMessage(content) ==
    [type |-> "bot", content |-> content, inputMethod |-> "text"]

UserMessage(content, method) ==
    [type |-> "user", content |-> content, inputMethod |-> method]

\* Math.max(response.split(' ').length * 600 + 1000, 2000)
ClearDelay(response) ==
    LET d == Len(split(response)) * 600 + 1000
    IN  IF d > 2000 THEN d ELSE 2000

\* The condition of App's effect on [messages, isProcessing].
LatestIsUnansweredUser(msgs, processing) ==
    /\ Len(msgs) > 0
    /\ msgs[Len(msgs)].type = "user"
    /\ ~processing

\* handleUserMessage up to its await: setIsProcessing(true) and the call.
StartGeneration(input) ==
    /\ isProcessing' = TRUE
    /\ inflight' = Append(inflight, input)
    /\ generations' = generations + 1

\* The draws of textToAnimation do not reach App: the effect is run under
\* the two seeds whose draws are all the least, or all the greatest, value.
AvatarSeeds == {seed \in Seeds : seed.b = 0 /\ seed.a \in {0, RandRes - 1}}

\* Avatar's effect on [currentText, isAnimating] after a render with the
\* values curText and curAnimating: animateText(currentText), that is
\* textToAnimation and playAnimation, when a dependency changed and both
\* are truthy.
AvatarEffect(curText, curAnimating) ==
    IF /\ curText # currentResponse \/ curAnimating # isAvatarAnimating
       /\ curText # <<>>
       /\ curAnimating
    THEN \E seed \in AvatarSeeds :
            playAnimation(textToAnimation(curText, seed))
    ELSE UNCHANGED <<currentAnimation, animationStartTime, isAnimating, plays,
                     rafQueue, lastRenders, lastOp, stoppedSince, stoppedUpTo>>

ChatOthers == <<synthVars, interpVars, classifierVars, recorderVars>>

\* TextInput's handleSubmit, then App's effect.
SubmitText ==
    /\ canvasReady
    /\ currentMode = "text"
    /\ ~isProcessing
    /\ generations < MaxGenerations
    /\ \E input \in UserInputs :
          /\ messages' = Append(messages, UserMessage(input, "text"))
          /\ IF LatestIsUnansweredUser(messages', isProcessing)
             THEN StartGeneration(input)
             ELSE UNCHANGED <<isProcessing, inflight, generations>>
          /\ lastChat' = [op |-> "submit", input |-> input]
    /\ UNCHANGED <<currentMode, currentResponse, isAvatarAnimating, timers>>
    /\ UNCHANGED <<playerVars, ChatOthers>>

\* A quick action button: handleUserMessage(phrase).
QuickAction ==
    /\ canvasReady
    /\ ~isProcessing
    /\ generations < MaxGenerations
    /\ \E input \in UserInputs :
          /\ StartGeneration(input)
          /\ lastChat' = [op |-> "quick", input |-> input]
    /\ UNCHANGED <<currentMode, messages, currentResponse, isAvatarAnimating,
                   timers>>
    /\ UNCHANGED <<playerVars, ChatOthers>>

\* VideoInput's stopRecording with a non-empty gestureQueue:
\* setIsProcessing(true), addMessage, setIsProcessing(false); then App's
\* effect.
SignMessage ==
    /\ canvasReady
    /\ currentMode = "sign"
    /\ generations < MaxGenerations
    /\ \E input \in UserInputs :
          /\ messages' = Append(messages, UserMessage(input, "sign"))
          /\ IF LatestIsUnansweredUser(messages', FALSE)
             THEN StartGeneration(input)
             ELSE /\ isProcessing' = FALSE
                  /\ UNCHANGED <<inflight, generations>>
          /\ lastChat' = [op |-> "sign", input |-> input,
                          wasProcessing |-> isProcessing]
    /\ UNCHANGED <<currentMode, currentResponse, isAvatarAnimating, timers>>
    /\ UNCHANGED <<playerVars, ChatOthers>>

\* ModeToggle: setCurrentMode
ToggleMode ==
    /\ canvasReady
    /\ currentMode' = IF currentMode = "text" THEN "sign" ELSE "text"
    /\ lastChat' = [op |-> "mode"]
    /\ UNCHANGED <<messages, isProcessing, inflight, currentResponse,
                   isAvatarAnimating, timers, generations>>
    /\ UNCHANGED <<playerVars, ChatOthers>>

\* setTimeout(callback, delay): the time the callback falls due
SetTimeout(delay) == now * ClockUnitMs + delay

RemoveAt(seq, i) == SubSeq(seq, 1, i - 1) \o SubSeq(seq, i + 1, Len(seq))

\* handleUserMessage resumes after its await: the try block's remainder or
\* the catch block, then the finally block; then the render, App's effect
\* and Avatar's effect.
ResponseArrives ==
    /\ inflight # <<>>
    /\ \E i \in 1..Len(inflight), outcome \in LLMOutcomes :
          LET r == generateResponse(outcome)
          IN  /\ inflight' = RemoveAt(inflight, i)
              /\ IF r.rejected
                 THEN /\ messages' =
                             Append(messages, BotMessage(ProcessingTroubleMessage))
                      /\ UNCHANGED <<currentResponse, isAvatarAnimating, timers>>
                      /\ AvatarEffect(currentResponse, isAvatarAnimating)
                 ELSE /\ messages' = Append(messages, BotMessage(r.value))
                      /\ currentResponse' = r.value
                      /\ isAvatarAnimating' = TRUE
                      /\ timers' = Append(timers, SetTimeout(ClearDelay(r.value)))
                      /\ AvatarEffect(r.value, TRUE)
              /\ lastChat' = [op |-> "response", input |-> inflight[i],
                              outcome |-> outcome.kind]
    /\ isProcessing' = FALSE
    /\ UNCHANGED <<currentMode, generations, canvasReady, now>>
    /\ UNCHANGED ChatOthers

\* A timer fires once it is due, and timers fire in the order they fall
\* due, those due together in the order they were set.
MayFire(i) ==
    /\ timers[i] <= now * ClockUnitMs
    /\ \A k \in 1..Len(timers) :
          k # i => timers[k] > timers[i] \/ (timers[k] = timers[i] /\ k > i)

\* The setTimeout callback: setIsAvatarAnimating(false), setCurrentResponse('')
TimerFires ==
    /\ \E i \in 1..Len(timers) :
          /\ MayFire(i)
          /\ timers' = RemoveAt(timers, i)
    /\ isAvatarAnimating' = FALSE
    /\ currentResponse' = <<>>
    /\ lastChat' = [op |-> "timer"]
    /\ UNCHANGED <<currentMode, messages, isProcessing, inflight, generations>>
    /\ UNCHANGED <<playerVars, ChatOthers>>

\* Avatar's mount effect: avatarService.initialize(canvas)
AvatarMount == Initialize

ChatNext ==
    \/ AvatarMount
    \/ SubmitText
    \/ QuickAction
    \/ SignMessage
    \/ ToggleMode
    \/ ResponseArrives
    \/ TimerFires
    \/ ClockAdvance

ChatSpec == Init /\ [][ChatNext]_vars

(***************************************************************************)
(* Properties of the player (Spec, LiveSpec).                              *)
(***************************************************************************)
LatestPlay == plays[Len(plays)]

\* C1: after a second play() with no stop() in between, every render call
\* uses the latest animation's keyframes and the elapsed time since the
\* latest play's origin, whichever scheduled tick makes the call.
C1_RendersUseLatestPlay ==
    \A i \in 1..Len(lastRenders) :
        /\ lastRenders[i].animation = LatestPlay.animation
        /\ lastRenders[i].elapsed = (now - LatestPlay.startedAt) * ClockUnitMs

\* A frame in which the superseded first play's tick renders, the second
\* play having started while the first was active, with another animation.
C1_OldTickRendersAfterSecondPlay ==
    /\ Len(plays) = 2
    /\ plays[2].whileActive
    /\ plays[1].animation # plays[2].animation
    /\ lastOp.op = "frame"
    /\ \E i \in 1..Len(lastRenders) : lastRenders[i].by = 1

\* C2: starting a playback while another is active first stops the previous
\* one (its operation completes, its tick chain ends): at most one tick is
\* pending per player and at most one frame is rendered per scheduler frame.
C2_OneTickChain ==
    /\ Len(rafQueue) <= 1
    /\ Len(lastRenders) <= 1
    /\ (lastOp.op = "animateText" /\ Len(plays) >= 2 /\ LatestPlay.whileActive
           => \A id \in 1..(Len(plays) - 1) : plays[id].status # "pending")

\* C3: stop() leaves the player inactive in every state and touches nothing
\* else, so a second stop() changes nothing; a frame run after a stop() with
\* no play() since renders nothing, schedules nothing, and resolves the play
\* of every tick it fires.
C3_StopThenTickNoOp ==
    [][/\ (lastOp'.op = "stop"
             => /\ ~isAnimating'
                /\ UNCHANGED <<canvasReady, currentAnimation, animationStartTime,
                               now, plays, rafQueue>>)
       /\ (lastOp'.op = "frame" /\ stoppedSince
             => /\ lastRenders' = <<>>
                /\ rafQueue' = <<>>
                /\ \A i \in 1..Len(rafQueue) :
                      plays'[rafQueue[i]].status = "resolved")]_vars

\* A tick that was scheduled when stop() was called has fired.
C3_TickFiredAfterStop ==
    /\ lastOp.op = "frame"
    /\ stoppedSince
    /\ Len(lastOp.fired) >= 1

\* C4: render is only called by a tick that saw the player active and
\* elapsed < duration; a tick that sees elapsed >= duration marks the player
\* inactive and completes its play; a completed play has no tick scheduled
\* and renders nothing, and a single completed playback leaves no tick at all.
C4_CompletionEndsPlayback ==
    /\ \A i \in 1..Len(lastRenders) :
          /\ lastRenders[i].active
          /\ lastRenders[i].elapsed < lastRenders[i].animation.duration
    /\ \A id \in 1..Len(plays) :
          plays[id].status # "pending"
             => /\ \A j \in 1..Len(rafQueue) : rafQueue[j] # id
                /\ \A j \in 1..Len(lastRenders) : lastRenders[j].by # id
    /\ (lastOp.op = "frame"
           => \A id \in lastOp.done :
                 ~isAnimating /\ plays[id].status = "resolved")
    /\ (Len(plays) = 1 /\ plays[1].status = "resolved"
           => rafQueue = <<>> /\ lastRenders = <<>>)

\* The tick of a single playback has seen elapsed >= duration.
C4_SinglePlaybackCompleted ==
    /\ lastOp.op = "frame"
    /\ Len(plays) = 1
    /\ 1 \in lastOp.done

\* C5: every play operation eventually completes, the scheduler firing the
\* scheduled ticks and the clock advancing, whatever stop() and play() calls
\* interleave.  Only the animate closure of a play calls its resolve, and
\* the closure runs again only as a scheduled tick, so the operation can
\* still complete exactly while one of its ticks is scheduled: a pending
\* play always has a tick in the scheduler's queue.
C5_PendingPlayHasTick ==
    \A id \in 1..Len(plays) :
        plays[id].status = "pending"
            => \E j \in 1..Len(rafQueue) : rafQueue[j] = id

(***************************************************************************)
(* Properties of the synthesizer (SynthSpec).                              *)
(***************************************************************************)
IsRestPose(keyframe) ==
    /\ keyframe.leftArm = [x |-> 0, y |-> 0, rotation |-> 0]
    /\ keyframe.rightArm = [x |-> 0, y |-> 0, rotation |-> 0]
    /\ keyframe.head = [rotation |-> 0]
    /\ keyframe.expression = "neutral"

\* C6: every synthesized animation has at least 2 keyframes, timestamps that
\* start at 0 and never decrease, and the neutral rest pose first and last.
C6_RestFramedMonotone ==
    animation # NoAnimation =>
        LET kf == animation.keyframes
        IN  /\ Len(kf) >= 2
            /\ kf[1].timestamp = 0
            /\ \A i \in 1..(Len(kf) - 1) : kf[i].timestamp <= kf[i + 1].timestamp
            /\ IsRestPose(kf[1])
            /\ IsRestPose(kf[Len(kf)])

\* An animation whose word keyframe is not the rest pose.
C6_AnimationWithWordPose ==
    /\ animation # NoAnimation
    /\ Len(animation.keyframes) = 4
    /\ ~IsRestPose(animation.keyframes[2])

\* A text of n words separated by single spaces: chunk, space, chunk, ...
SingleSpaced(t) ==
    /\ Len(t) % 2 = 1
    /\ \A i \in 1..Len(t) : (t[i] = Space) <=> (i % 2 = 0)

Lowercased(word) == IF word = "Hello" THEN "hello" ELSE word

\* C7: for n single-space-separated words the animation is rest at 0, word i
\* at 500*i with its tabled pose when the lowercased word is tabled, rest at
\* 500*(n+1), and its duration is the last timestamp; "hello" gives rest@0,
\* the hello pose@500, rest@1000.
C7_WordKeyframes ==
    (animation # NoAnimation /\ SingleSpaced(text)) =>
        LET kf == animation.keyframes
            n == (Len(text) + 1) \div 2
        IN  /\ Len(kf) = n + 2
            /\ kf[1].timestamp = 0 /\ IsRestPose(kf[1])
            /\ \A i \in 1..n :
                  LET word == Lowercased(text[2 * i - 1])
                  IN  /\ kf[i + 1].timestamp = 500 * i
                      /\ word \in TabledWords =>
                            /\ kf[i + 1].leftArm = gestures(word).leftArm
                            /\ kf[i + 1].rightArm = gestures(word).rightArm
                            /\ kf[i + 1].head = gestures(word).head
            /\ kf[n + 2].timestamp = 500 * (n + 1) /\ IsRestPose(kf[n + 2])
            /\ animation.duration = kf[n + 2].timestamp
            /\ (text = <<"hello">> =>
                  /\ kf[2].leftArm = [x |-> -30, y |-> -20, rotation |-> 45]
                  /\ kf[2].rightArm = [x |-> 30, y |-> -20, rotation |-> -45]
                  /\ kf[2].head = [rotation |-> 0])

\* The animation of two tabled words, the first written with a capital.
C7_TwoTabledWords ==
    /\ animation # NoAnimation
    /\ text = <<"Hello", Space, "you">>

\* C8: for the empty text every keyframe emitted is the neutral rest pose.
C8_EmptyTextRestToRest ==
    (animation # NoAnimation /\ text = <<>>) =>
        \A i \in 1..Len(animation.keyframes) : IsRestPose(animation.keyframes[i])

ExpectedExpression(word) ==
    IF word \in {"what", "how", "why", "when", "where", "?"} THEN "questioning"
    ELSE IF word \in {"good", "great", "wonderful", "happy", "thank"} THEN "happy"
    ELSE "neutral"

\* C9: the expression of each word keyframe depends on the word alone: happy
\* for a positive word, questioning for a question word, neutral otherwise,
\* whichever membership test comes first.
C9_ExpressionOfWord ==
    animation # NoAnimation =>
        LET words == split(text)
        IN  \A i \in 1..Len(words) :
               /\ i + 1 <= Len(animation.keyframes)
               /\ animation.keyframes[i + 1].expression = ExpectedExpression(words[i])

\* An animation with a happy and a questioning word keyframe.
C9_HappyAndQuestioning ==
    /\ animation # NoAnimation
    /\ \E i, j \in 1..Len(animation.keyframes) :
          /\ animation.keyframes[i].expression = "happy"
          /\ animation.keyframes[j].expression = "questioning"

InFallbackRange(keyframe) ==
    /\ HasPose(keyframe)
    /\ keyframe.leftArm.x \in -20..20 /\ keyframe.rightArm.x \in -20..20
    /\ keyframe.leftArm.y \in -10..10 /\ keyframe.rightArm.y \in -10..10
    /\ keyframe.leftArm.rotation \in -30..30
    /\ keyframe.rightArm.rotation \in -30..30
    /\ keyframe.head.rotation \in -10..10

\* C10: a word outside the table gets a keyframe whose components lie in the
\* fallback ranges, for every draw, at the timestamp a tabled word would get.
C10_FallbackPoseInRange ==
    animation # NoAnimation =>
        LET words == split(text)
        IN  /\ Len(animation.keyframes) = Len(words) + 2
            /\ \A i \in 1..Len(words) :
                  /\ animation.keyframes[i + 1].timestamp = 500 * i
                  /\ words[i] \notin TabledWords
                        => InFallbackRange(animation.keyframes[i + 1])

(***************************************************************************)
(* Properties of interpolatePose (InterpSpec).                             *)
(***************************************************************************)
Returned == pose # NoPose /\ pose # Threw

\* The fraction r is the integer v.
IsInteger(r, v) == r.num = v * r.den

SamePose(p, keyframe) ==
    /\ HasPose(keyframe)
    /\ IsInteger(p.leftArm.x, keyframe.leftArm.x)
    /\ IsInteger(p.leftArm.y, keyframe.leftArm.y)
    /\ IsInteger(p.leftArm.rotation, keyframe.leftArm.rotation)
    /\ IsInteger(p.rightArm.x, keyframe.rightArm.x)
    /\ IsInteger(p.rightArm.y, keyframe.rightArm.y)
    /\ IsInteger(p.rightArm.rotation, keyframe.rightArm.rotation)
    /\ IsInteger(p.head.rotation, keyframe.head.rotation)

\* C11: for every animation, interpolatePose at elapsed = 0 returns the
\* first keyframe's pose, every numeric field and the expression.  It fails:
\* the bracket at 0 is (keyframes[0], keyframes[1]), and when the first word
\* is a name the gesture table inherits (C10) keyframes[1] has no leftArm, so
\* the read of nextFrame.leftArm.x throws and no pose is returned.
C11_ElapsedZeroIsFirstKeyframe ==
    (pose # NoPose /\ elapsedArg = 0) =>
        /\ pose # Threw
        /\ SamePose(pose, animation.keyframes[1])
        /\ pose.expression = animation.keyframes[1].expression


\* The value of prev + (next - prev) * (elapsed - tp) / (tn - tp) as the
\* fraction r, compared without dividing.
IsBlend(r, prev, next, elapsed, tp, tn) ==
    r.num * (tn - tp) = (prev * (tn - tp) + (next - prev) * (elapsed - tp)) * r.den

IsMean(r, prev, next) == 2 * r.num = (prev + next) * r.den

\* One numeric field of the returned pose against the bracket's two values.
FieldBlends(r, prev, next, elapsed, tp, tn) ==
    /\ tn > tp => IsBlend(r, prev, next, elapsed, tp, tn)
    /\ tn = tp => IsInteger(r, prev)
    /\ 2 * elapsed = tp + tn => IsMean(r, prev, next)

\* The brackets elapsed lies in whose two keyframes carry a pose.
BracketsOf(anim, elapsed) ==
    {i \in 1..(Len(anim.keyframes) - 1) :
        /\ anim.keyframes[i].timestamp <= elapsed
        /\ elapsed <= anim.keyframes[i + 1].timestamp
        /\ HasPose(anim.keyframes[i])
        /\ HasPose(anim.keyframes[i + 1])}

\* C12: for elapsed inside a bracket (prev, next), every numeric field of
\* the returned pose (both arms' x, y and rotation, the head's rotation) is
\* prev + (next - prev) * progress with progress = (elapsed - prev.timestamp)
\* / (next.timestamp - prev.timestamp), progress being 0 when the two
\* timestamps are equal; at the exact midpoint of the bracket each field is
\* the arithmetic mean of the two keyframes' values.
C12_FieldsAreLinearBlend ==
    Returned =>
        \A i \in BracketsOf(animation, elapsedArg) :
            LET prev == animation.keyframes[i]
                next == animation.keyframes[i + 1]
                tp == prev.timestamp
                tn == next.timestamp
                e == elapsedArg
            IN  /\ FieldBlends(pose.leftArm.x, prev.leftArm.x, next.leftArm.x, e, tp, tn)
                /\ FieldBlends(pose.leftArm.y, prev.leftArm.y, next.leftArm.y, e, tp, tn)
                /\ FieldBlends(pose.leftArm.rotation, prev.leftArm.rotation,
                               next.leftArm.rotation, e, tp, tn)
                /\ FieldBlends(pose.rightArm.x, prev.rightArm.x, next.rightArm.x, e, tp, tn)
                /\ FieldBlends(pose.rightArm.y, prev.rightArm.y, next.rightArm.y, e, tp, tn)
                /\ FieldBlends(pose.rightArm.rotation, prev.rightArm.rotation,
                               next.rightArm.rotation, e, tp, tn)
                /\ FieldBlends(pose.head.rotation, prev.head.rotation,
                               next.head.rotation, e, tp, tn)

\* A pose returned at the exact midpoint of the bracket from rest to the
\* "hello" gesture: the left arm's x is the mean of 0 and -30.
C12_MidpointOfRestToHello ==
    /\ Returned
    /\ animation.keyframes[2].leftArm = gestures("hello").leftArm
    /\ 2 * elapsedArg = animation.keyframes[1].timestamp
                          + animation.keyframes[2].timestamp
    /\ IsInteger(pose.leftArm.x, -15)

(***************************************************************************)
(* Properties of the gesture recognition service (ClassifierSpec).         *)
(***************************************************************************)
\* C20: processFrame called while the service is not initialized fails with
\* an error (neither a sample nor null), changes no field of the service,
\* and does not initialize it.
C20_UninitializedClassifyFails ==
    [][(lastClassify'.called /\ ~(initialized /\ model)) =>
          /\ lastClassify'.result.outcome = "error"
          /\ UNCHANGED <<initialized, model, initializationPromise, callers,
                         setups>>]_vars

\* processFrame was called while doInitialize was still running.
C20_ClassifiedDuringSetup ==
    /\ lastClassify.called
    /\ lastClassify.result.outcome = "error"
    /\ ~initialized
    /\ initializationPromise = "pending"

\* C21: while the classifier is initialized, a classify call on a frame whose
\* width or height is zero returns "no sample" and does not throw, and a call
\* on a frame with positive dimensions returns one sample whose label is one
\* of the ten fixed labels.
FixedLabelSet ==
    {"hello", "thank you", "please", "yes", "no",
     "help", "good", "bad", "more", "stop"}

ZeroDimension(frame) == frame.videoWidth = 0 \/ frame.videoHeight = 0

C21_ClassifyByDimensions ==
    (lastClassify.called /\ initialized /\ model) =>
        IF ZeroDimension(lastClassify.frame)
        THEN lastClassify.result = [outcome |-> "none"]
        ELSE /\ lastClassify.result.outcome = "sample"
             /\ lastClassify.result.gesture \in FixedLabelSet

\* an initialized classifier was handed a frame of width 640 and height 0
C21_ZeroHeightFrameClassified ==
    /\ lastClassify.called
    /\ initialized
    /\ lastClassify.frame.videoWidth = 640
    /\ lastClassify.frame.videoHeight = 0
    /\ lastClassify.result.outcome = "none"

\* C22: initialization is idempotent and memoized.  Over any sequence of
\* initialize calls, overlapping or not, doInitialize has run at most once
\* more than it has failed; the callers waiting on one attempt all get that
\* attempt's outcome when it settles; and once the service is initialized it
\* stays initialized and a later call starts no setup and changes no field.
WaitingCallers == {c \in Callers : callers[c] = "waiting"}

C22_InitializeMemoized ==
    [][/\ setups' <= failures' + 1
       /\ (initializationPromise = "pending" /\ initializationPromise' # "pending")
            => /\ \A c, d \in WaitingCallers : callers'[c] = callers'[d]
               /\ \A c \in WaitingCallers :
                     callers'[c] \in {"resolved", "rejected"}
       /\ initialized
            => /\ initialized'
               /\ UNCHANGED <<model, initializationPromise, setups, failures>>
               /\ \A c \in Callers : callers'[c] \in {callers[c], "resolved"}
      ]_vars

\* every caller called initialize before the one setup settled
C22_OverlappingCallsOneSetup ==
    /\ \A c \in Callers : callers[c] = "waiting"
    /\ setups = 1
    /\ initializationPromise = "pending"

\* C23: when doInitialize fails, every caller waiting on it is rejected, the
\* service stays uninitialized and no promise stays stored; an initialize
\* call made after that starts a new doInitialize (which can succeed).
SetupFailed == failures' = failures + 1

InitializeCalled == callers' # callers /\ failures' = failures /\ ~initialized'

C23_FailureNotCached ==
    [][/\ SetupFailed
            => /\ \A c \in WaitingCallers : callers'[c] = "rejected"
               /\ ~initialized'
               /\ ~model'
               /\ initializationPromise' = "null"
       /\ (InitializeCalled /\ failures > 0 /\ initializationPromise # "pending")
            => /\ setups' = setups + 1
               /\ initializationPromise' = "pending"
      ]_vars

\* a caller was rejected by the first setup and the second setup succeeded
C23_SecondAttemptSucceeded ==
    /\ initialized
    /\ failures = 1
    /\ setups = 2
    /\ \E c \in Callers : callers[c] = "rejected"
    /\ \E c \in Callers : callers[c] = "resolved"

(***************************************************************************)
(* Properties of the gesture queue (RecorderSpec).  The queue a sample is  *)
(* submitted to is the rendered gestureQueue with the waiting updates      *)
(* applied.                                                                *)
(***************************************************************************)
SubmittedQueue == ApplyUpdates(gestureQueue, queueUpdates, 1)

NoAdjacentEqual(queue) ==
    \A i \in 1..(Len(queue) - 1) : queue[i] # queue[i + 1]

\* C13: in every reachable state, after any sequence of start, submit and
\* stop, no two adjacent entries of the gesture queue are equal.
C13_NoAdjacentEqual ==
    /\ NoAdjacentEqual(gestureQueue)
    /\ NoAdjacentEqual(SubmittedQueue)

\* The same label was admitted twice in a row and the queue holds two
\* entries.
C13_RepeatedLabelAdmitted ==
    /\ Len(gestureQueue) >= 2
    /\ \E i \in 1..(Len(admitted) - 1) : admitted[i] = admitted[i + 1]

\* Runs of equal adjacent labels collapsed to one entry.
RECURSIVE Collapse(_)
Collapse(labels) ==
    IF Len(labels) <= 1 THEN labels
    ELSE LET front == Collapse(SubSeq(labels, 1, Len(labels) - 1))
             last == labels[Len(labels)]
         IN  IF labels[Len(labels) - 1] = last THEN front
             ELSE Append(front, last)

\* C14: for every sequence of samples submitted in one session the queue is
\* the labels of the samples that passed the confidence gate, in submission
\* order, with runs of equal adjacent labels collapsed to one entry.
C14_QueueIsCollapsedAdmitted ==
    isRecording => SubmittedQueue = Collapse(admitted)

\* The samples a, a, b, a above the gate and then a below it: the queue is
\* a, b, a.
C14_TwoLabelsThenRejected ==
    /\ isRecording
    /\ admitted = <<"hello", "hello", "help", "hello">>
    /\ lastRec.op = "tick"
    /\ lastRec.result.outcome = "sample"
    /\ lastRec.result.gesture = "hello"
    /\ lastRec.result.confidence = 600
    /\ queueUpdates = <<>>
    /\ gestureQueue = <<"hello", "help", "hello">>

LastOf(queue) == queue[Len(queue)]

\* The sample the claim says is ignored: none, below 0.7, or the label the
\* queue ends with.
Ignorable(result, queue) ==
    \/ result.outcome # "sample"
    \/ result.confidence < 700
    \/ (queue # <<>> /\ LastOf(queue) = result.gesture)

\* C15: a tick whose sample is none, has a confidence below 0.7, or carries
\* the label the queue ends with leaves the queue unchanged; a tick never
\* removes or reorders entries.
C15_IgnoredSampleKeepsQueue ==
    [][lastRec'.op = "tick" =>
          /\ Ignorable(lastRec'.result, SubmittedQueue) =>
                 /\ SubmittedQueue' = SubmittedQueue
                 /\ gestureQueue' = gestureQueue
          /\ \/ SubmittedQueue' = SubmittedQueue
             \/ /\ lastRec'.result.outcome = "sample"
                /\ SubmittedQueue' = Append(SubmittedQueue, lastRec'.result.gesture)]_vars

\* A tick's sample below the threshold, with a label the queue does not end
\* with, was ignored.
C15_LowConfidenceIgnored ==
    /\ lastRec.op = "tick"
    /\ lastRec.result.outcome = "sample"
    /\ lastRec.result.confidence < 700
    /\ SubmittedQueue # <<>>
    /\ LastOf(SubmittedQueue) # lastRec.result.gesture

\* C16: a sample is rejected by the gate only when its confidence is below
\* the threshold: with a confidence of exactly 0.7 or more, and the queue
\* empty or ending with another label, the label is appended.  It fails:
\* the test is confidence > 0.7, so a sample at exactly 0.7 is dropped.
C16_ThresholdAdmitted ==
    [][(/\ lastRec'.op = "tick"
        /\ lastRec'.result.outcome = "sample"
        /\ lastRec'.result.confidence >= 700
        /\ (SubmittedQueue = <<>> \/ LastOf(SubmittedQueue) # lastRec'.result.gesture))
          => SubmittedQueue' = Append(SubmittedQueue, lastRec'.result.gesture)]_vars

\* The phrase of a token, and the phrases of a queue joined by single spaces.
PhraseOf(token) ==
    CASE token = "hello" -> "Hello"
      [] token = "help" -> "I need help"
      [] token = "yes" -> "Yes"
      [] token = "good" -> "Good"
      [] OTHER -> token

ExpectedText(queue) ==
    [i \in 1..(IF queue = <<>> THEN 0 ELSE 2 * Len(queue) - 1) |->
        IF i % 2 = 1 THEN PhraseOf(queue[(i + 1) \div 2]) ELSE Space]

\* C17: stop is atomic: the text it produces is the whole queue at the
\* moment of the stop, each token mapped to its phrase, in order, joined by
\* single spaces, and the queue is empty afterwards.  It fails: stopRecording
\* reads the gestureQueue of the last render, so a token whose
\* setGestureQueue call has not been rendered yet is left out of the text,
\* and when the rendered queue is still empty the token stays in the queue
\* after the stop.
C17_StopDrainsWholeQueue ==
    lastRec.op = "stop" =>
        /\ lastRec.text = ExpectedText(lastRec.submitted)
        /\ SubmittedQueue = <<>>

IsPrefix(short, long) ==
    /\ Len(short) <= Len(long)
    /\ short = SubSeq(long, 1, Len(short))

\* C19: the queue is mutated only while recording is active: a start leaves
\* it empty (before the first sample of the session), nothing is appended
\* between a stop and the next start, and the text a stop produces holds
\* only tokens admitted between that session's start and its stop.
C19_QueueMutatedOnlyWhileRecording ==
    [][/\ Len(SubmittedQueue') > Len(SubmittedQueue) => isRecording'
       /\ (~isRecording /\ ~isRecording') =>
              IsPrefix(SubmittedQueue', SubmittedQueue)
       /\ lastRec'.op = "start" => SubmittedQueue' = Collapse(admitted')
       /\ (lastRec'.op = "start" /\ ~PassesGate(lastRec'.result)) =>
              SubmittedQueue' = <<>>
       /\ lastRec'.op = "stop" =>
              \E n \in 0..Len(Collapse(admitted)) :
                 lastRec'.text = ExpectedText(SubSeq(Collapse(admitted), 1, n))]_vars

\* The second session was stopped with tokens while a sample's update was
\* still waiting for its render.
C19_SecondSessionStoppedMidUpdate ==
    /\ lastRec.op = "stop"
    /\ lastRec.produced
    /\ sessions = 2
    /\ Len(lastRec.submitted) > 1
    /\ lastRec.text # ExpectedText(lastRec.submitted)

(***************************************************************************)
(* Properties of App and the Avatar component (ChatSpec).                  *)
(***************************************************************************)
\* C24: when the language model fails for a user input, the handler plays no
\* animation for that input (the synthesizer is not called) and the bot
\* message added is App's fixed fallback message.
C24_FailureShowsFallbackWithoutAnimation ==
    [][(lastChat'.op = "response" /\ lastChat'.outcome = "error") =>
          /\ plays' = plays
          /\ messages'[Len(messages')] = BotMessage(ProcessingTroubleMessage)
      ]_vars

(***************************************************************************)
(* Stopped playbacks (Spec).                                               *)
(***************************************************************************)
\* The plays made before the last stopAnimation call: their playback was
\* stopped.
StoppedPlay(id) == id <= stoppedUpTo

\* C25: once stopAnimation was called on a playback, no tick of that playback
\* renders a frame or registers a further tick, also when a new play started
\* before the tick that was already registered fires.
C25_StoppedPlaybackNeverTicks ==
    lastOp.op = "frame" =>
        /\ \A i \in 1..Len(lastRenders) : ~StoppedPlay(lastRenders[i].by)
        /\ \A i \in 1..Len(rafQueue) : ~StoppedPlay(rafQueue[i])

(***************************************************************************)
(* The sampling loop and the sessions of VideoInput (RecorderSpec).        *)
(***************************************************************************)
\* C26: once recording is stopped (stopRecording, stopCamera, or VideoInput
\* unmounting), the sampling loop makes no further tick: no frame callback
\* stays registered, so nothing is classified and nothing re-arms; and at any
\* time at most one frame callback is registered, over any number of
\* stop/start cycles.
C26_NoTickAfterStop ==
    /\ loopArmed <= 1
    /\ (~isRecording \/ ~mounted) => loopArmed = 0
    /\ lastRec.op = "tick" => (isRecording /\ mounted)

\* VideoInput unmounted during the second session while a frame callback
\* was registered.
C26_TeardownDuringSecondSession ==
    /\ lastRec.op = "unmount"
    /\ lastRec.wasArmed
    /\ isRecording
    /\ sessions = 2
    /\ loopArmed = 0

\* C27: a recording session is consumed exactly once: the stop of a session
\* whose queue holds tokens adds exactly one user message, the stop of a
\* session whose queue is empty adds none, and no other operation adds one
\* (so no tokens are converted to text a second time).
C27_SessionConsumedOnce ==
    [][IF lastRec'.op = "stop" /\ isRecording /\ ~isRecording'
       THEN messageCount' =
                messageCount + (IF lastRec'.submitted # <<>> THEN 1 ELSE 0)
       ELSE messageCount' = messageCount]_vars

\* C28: a tick during recording for which processFrame returns null (a frame
\* of width or height zero) leaves the queue as it is, is not an error, and
\* registers the next tick; and the tick after it, given a sample above the
\* gate whose label the queue does not end with, appends that label.
C28_NoSampleTickKeepsLooping ==
    [][lastRec'.op = "tick" =>
          /\ lastRec'.result.outcome = "none" =>
                 /\ SubmittedQueue' = SubmittedQueue
                 /\ gestureQueue' = gestureQueue
                 /\ isRecording'
                 /\ loopArmed' = 1
          /\ (/\ lastRec'.afterNone
              /\ PassesGate(lastRec'.result)
              /\ (SubmittedQueue = <<>>
                     \/ LastOf(SubmittedQueue) # lastRec'.result.gesture))
                 => SubmittedQueue' =
                        Append(SubmittedQueue, lastRec'.result.gesture)]_vars

\* The tick after a tick without a sample appended a label to a queue that
\* already held one.
C28_AppendedAfterNoSample ==
    /\ lastRec.op = "tick"
    /\ lastRec.afterNone
    /\ PassesGate(lastRec.result)
    /\ Len(admitted) = 2
    /\ Len(SubmittedQueue) = 2
    /\ LastOf(SubmittedQueue) = lastRec.result.gesture

C30_ExpressionIsStep ==
    Returned =>
        \A i \in 1..(Len(animation.keyframes) - 1) :
            LET prev == animation.keyframes[i]
                next == animation.keyframes[i + 1]
            IN  (/\ prev.timestamp <= elapsedArg
                 /\ elapsedArg <= next.timestamp
                 /\ prev.timestamp < next.timestamp)
                    => pose.expression =
                          IF 2 * (elapsedArg - prev.timestamp)
                                 < next.timestamp - prev.timestamp
                          THEN prev.expression
                          ELSE next.expression

\* A pose returned at progress exactly 0.5 between the neutral rest keyframe
\* and a "happy" word keyframe carries "happy".
C30_HalfwayTakesNextExpression ==
    /\ Returned
    /\ animation.keyframes[1].expression = "neutral"
    /\ animation.keyframes[2].expression = "happy"
    /\ 2 * elapsedArg = animation.keyframes[1].timestamp
                          + animation.keyframes[2].timestamp
    /\ pose.expression = "happy"

(***************************************************************************)
(* Recording and the classifier's initialization                           *)
(***************************************************************************)
\* C31: recording is never active while the classifier is uninitialized, and
\* no call of the loop's processFrame is rejected with the "not initialized"
\* error.
C31_RecordingImpliesInitialized ==
    /\ isRecording => initialized
    /\ lastRec.op \in {"start", "videoReady", "tick"} =>
           lastRec.result.outcome # "error"

\* A first setup failed, a later one succeeded, and a tick of the recording
\* started after it classified a frame.
C31_SampledAfterFailedSetup ==
    /\ isRecording
    /\ failures > 0
    /\ lastRec.op = "tick"
    /\ lastRec.result.outcome = "sample"

(***************************************************************************)
(* The bracket search of interpolatePose (InterpSpec).                     *)
(***************************************************************************)
\* The adjacent keyframe pairs whose timestamps hold elapsed.
AdjacentBrackets(anim, elapsed) ==
    {i \in 1..(Len(anim.keyframes) - 1) :
        /\ anim.keyframes[i].timestamp <= elapsed
        /\ elapsed <= anim.keyframes[i + 1].timestamp}

\* The fraction r lies between the integers a and b, in either order.
Between(r, a, b) ==
    LET lo == IF a <= b THEN a ELSE b
        hi == IF a <= b THEN b ELSE a
    IN  lo * r.den <= r.num /\ r.num <= hi * r.den

PoseBetween(p, prev, next) ==
    /\ Between(p.leftArm.x, prev.leftArm.x, next.leftArm.x)
    /\ Between(p.leftArm.y, prev.leftArm.y, next.leftArm.y)
    /\ Between(p.leftArm.rotation, prev.leftArm.rotation, next.leftArm.rotation)
    /\ Between(p.rightArm.x, prev.rightArm.x, next.rightArm.x)
    /\ Between(p.rightArm.y, prev.rightArm.y, next.rightArm.y)
    /\ Between(p.rightArm.rotation, prev.rightArm.rotation, next.rightArm.rotation)
    /\ Between(p.head.rotation, prev.head.rotation, next.head.rotation)

\* C32: for every synthesized animation and every elapsed time from 0 to its
\* duration, the search selects an adjacent pair of keyframes whose
\* timestamps hold elapsed (never the first-and-last pair it starts from),
\* progress lies in [0, 1], and every numeric field of a returned pose lies
\* between the values of the two keyframes of each adjacent pair holding
\* elapsed (of those whose keyframes carry a pose).
C32_BracketFoundWithinDuration ==
    (pose # NoPose /\ 0 <= elapsedArg /\ elapsedArg <= animation.duration) =>
        LET b == FindBracket(animation.keyframes, elapsedArg, 1)
            progress == Progress(animation.keyframes[b.prev],
                                 animation.keyframes[b.next], elapsedArg)
        IN  /\ Len(animation.keyframes) >= 3
            /\ b.next = b.prev + 1
            /\ b.prev \in AdjacentBrackets(animation, elapsedArg)
            /\ 0 <= progress.num /\ progress.num <= progress.den
            /\ Returned =>
                   \A i \in BracketsOf(animation, elapsedArg) :
                       PoseBetween(pose, animation.keyframes[i],
                                   animation.keyframes[i + 1])

\* A pose returned strictly inside the second bracket of a two-word
\* animation, between a word keyframe and the next one, its left arm's x
\* strictly between the two keyframes' different values.
C32_InsideSecondBracket ==
    /\ Returned
    /\ Len(animation.keyframes) = 4
    /\ animation.keyframes[2].timestamp < elapsedArg
    /\ elapsedArg < animation.keyframes[3].timestamp
    /\ animation.keyframes[2].leftArm.x # animation.keyframes[3].leftArm.x
    /\ ~IsInteger(pose.leftArm.x, animation.keyframes[2].leftArm.x)
    /\ ~IsInteger(pose.leftArm.x, animation.keyframes[3].leftArm.x)

\* The interior keyframes (neither the first nor the last) whose timestamp
\* is elapsed.
InteriorAt(anim, elapsed) ==
    {i \in 2..(Len(anim.keyframes) - 1) : anim.keyframes[i].timestamp = elapsed}

\* C33: when elapsed is the timestamp of an interior keyframe k, the search
\* from the start selects the bracket ending at k with progress 1, and the
\* interpolated pose is k's pose in every numeric field with k's expression.
\* It fails: when k or the keyframe before it is the keyframe of a name the
\* gesture table inherits (C10), it has no leftArm, the read of its fields
\* throws and no pose is returned.
C33_KeyframeTimeGivesKeyframePose ==
    pose # NoPose =>
        \A i \in InteriorAt(animation, elapsedArg) :
            LET b == FindBracket(animation.keyframes, elapsedArg, 1)
                progress == Progress(animation.keyframes[b.prev],
                                     animation.keyframes[b.next], elapsedArg)
            IN  /\ b = [prev |-> i - 1, next |-> i]
                /\ progress.num = progress.den
                /\ pose # Threw
                /\ SamePose(pose, animation.keyframes[i])
                /\ pose.expression = animation.keyframes[i].expression

(***************************************************************************)
(* The sampling loop while recording (RecorderSpec).                       *)
(***************************************************************************)
\* C34: while recording is active and the video is ready, a frame callback
\* of the sampling loop is registered after every tick, whatever the tick's
\* outcome.  It fails: a tick that finds the video paused returns before
\* its requestAnimationFrame call, and the loop effect does not run again
\* while isRecording and isVideoReady keep their values.
C34_LoopStaysArmed ==
    (mounted /\ isRecording /\ isVideoReady /\ lastRec.op = "tick")
        => loopArmed > 0

(***************************************************************************)
(* Response generations (ChatSpec).                                        *)
(***************************************************************************)
\* C35: at most one generateResponse call is in flight at any time, and
\* isProcessing stays set until the call in flight has been answered.  It
\* fails: stopRecording sets and clears isProcessing around its addMessage
\* whatever App is doing, so a sign message added while a generation is in
\* flight leaves the flag clear, and App's effect starts a second one.
C35_OneGenerationAtATime ==
    /\ Len(inflight) <= 1
    /\ inflight # <<>> => isProcessing

(***************************************************************************)
(* The avatar-animating flag and the playback (ChatSpec).                  *)
(***************************************************************************)
\* The time, in milliseconds, at which the playback last started is over.
PlaybackEnd == animationStartTime * ClockUnitMs + currentAnimation.duration

\* C36: when a timer clears the avatar-animating flag, the playback of the
\* response the flag was last set for is over.  It fails: the timers are
\* never cancelled, so the timer of an earlier response clears the flag set
\* by a later one while the later one's playback is running.
C36_FlagOutlivesPlayback ==
    (lastChat.op = "timer" /\ currentAnimation # NoAnimation)
        => now * ClockUnitMs >= PlaybackEnd

====
